---- MODULE Spec2Model ----
(***************************************************************************)
(* TeleConf: Config.__init__ of src/__init__.py as a state machine.        *)
(*                                                                         *)
(* One run of Config(...) loads the config file, resolves the requested    *)
(* fields in the order api_id, api_hash, bot_token, phone_number (reusing  *)
(* a stored value or prompting for one), and saves the record.             *)
(* Text is a sequence of characters; a character is a one-element string,  *)
(* except "sup2", which stands for U+00B2 (SUPERSCRIPT TWO): a character   *)
(* for which str.isdigit() is True and which int() rejects.                *)
(***************************************************************************)
EXTENDS Integers, Sequences, FiniteSets, TLC

VARIABLES
    file,         \* the config file on disk
    flags,        \* the fields whose request_* flag is set in this run
    force_update, \* the force_update argument of this run
    as_dict,      \* self.as_dict
    attrs,        \* the attributes self.api_id, self.api_hash, ... that are set
    pc,           \* where the run is: idle, load, get, prompt, save, done
    field,        \* the field whose _get_* call the run is in (or was last in)
    outcome,      \* how the run ended: none, returned, exit, raised
    error,        \* the exception that reached the caller, or "none"
    exit_status,  \* the status given to sys.exit, -1 while the process lives
    notice,       \* "Input canceled by user" was printed in this run
    entered,      \* the lines entered at the latest prompt, in order
    prompted,     \* the fields a prompt was issued for in this run
    reused,       \* the fields resolved from the loaded record in this run
    wrote,        \* this run wrote the config file
    file0,        \* the config file as it was when this run started
    run,          \* the number of runs started so far
    prev,         \* what the previous run on the same file left behind
    ours          \* the file this run started from was written by an earlier run

vars == <<file, flags, force_update, as_dict, attrs, pc, field, outcome, error,
          exit_status, notice, entered, prompted, reused, wrote, file0, run,
          prev, ours>>

----------------------------------------------------------------------------
(* Bounds of the model. *)

\* The number of lines a user enters at one prompt that the validator rejects.
MaxRejects == 2

\* The number of consecutive runs on one config file (SpecRuns).
MaxRuns == 2

----------------------------------------------------------------------------
(* Characters and the str methods the code calls. *)

QUOTE == "\""
BSLASH == "\\"
SUP2 == "sup2"

DecimalChars == {"0", "1", "2", "3", "4", "5", "6", "7", "8", "9"}

\* str.isspace of one character.
IsSpace(c) == c = " "

\* A character int() and the regex class \d accept (Unicode category Nd).
IsDecimal(c) == c \in DecimalChars

\* A character str.isdigit accepts: a decimal, or a digit such as U+00B2.
IsDigitChar(c) == IsDecimal(c) \/ c = SUP2

\* str.isdigit(): every character is a digit and there is at least one.
isdigit(t) == Len(t) > 0 /\ \A i \in 1..Len(t) : IsDigitChar(t[i])

RECURSIVE lstrip(_)
lstrip(t) == IF Len(t) > 0 /\ IsSpace(Head(t)) THEN lstrip(Tail(t)) ELSE t

RECURSIVE rstrip(_)
rstrip(t) ==
    IF Len(t) > 0 /\ IsSpace(t[Len(t)])
    THEN rstrip(SubSeq(t, 1, Len(t) - 1))
    ELSE t

\* str.strip(): leading and trailing whitespace removed.
strip(t) == rstrip(lstrip(t))

DigitValue(c) ==
    CASE c = "0" -> 0 [] c = "1" -> 1 [] c = "2" -> 2 [] c = "3" -> 3
      [] c = "4" -> 4 [] c = "5" -> 5 [] c = "6" -> 6 [] c = "7" -> 7
      [] c = "8" -> 8 [] c = "9" -> 9

RECURSIVE DecimalValue(_)
DecimalValue(t) ==
    IF Len(t) = 0 THEN 0
    ELSE 10 * DecimalValue(SubSeq(t, 1, Len(t) - 1)) + DigitValue(t[Len(t)])

\* The digits int(text) reads: the text without surrounding whitespace and
\* without one leading "+".
IntBody(t) ==
    LET s == strip(t)
    IN  IF Len(s) > 0 /\ Head(s) = "+" THEN Tail(s) ELSE s

\* int(text) returns (it raises ValueError otherwise).
IntParses(t) ==
    LET b == IntBody(t)
    IN  Len(b) > 0 /\ \A i \in 1..Len(b) : IsDecimal(b[i])

\* int(text), where it returns.
int(t) == DecimalValue(IntBody(t))

\* re.match(r"^\+?[1-9]\d{6,14}$", s): s has no line break in this model.
PhonePattern(s) ==
    LET d == IF Len(s) > 0 /\ Head(s) = "+" THEN Tail(s) ELSE s
    IN  /\ Len(d) >= 7
        /\ Len(d) <= 15
        /\ d[1] \in DecimalChars \ {"0"}
        /\ \A i \in 2..Len(d) : IsDecimal(d[i])

----------------------------------------------------------------------------
(* The fields and the values they hold. *)

Fields == {"api_id", "api_hash", "bot_token", "phone_number"}

\* A variant with the api_id and api_hash statements exchanged.
FieldOrderSwapped == <<"api_hash", "api_id", "bot_token", "phone_number">>

\* The order of the _get_* calls in __init__.
FieldOrder == <<"api_id", "api_hash", "bot_token", "phone_number">>

\* The keys the save step puts in the record.
SavedKeys == {"api_id", "api_hash", "bot_token"}

\* A Python value: an int, or a str.
IntVal(n) == [t |-> "int", n |-> n, s |-> <<>>]
StrVal(s) == [t |-> "str", n |-> 0, s |-> s]

\* The empty mapping.
EmptyMap == [k \in {} |-> StrVal(<<>>)]

----------------------------------------------------------------------------
(* The JSON text of a value, as json.dump writes it and json.load reads it. *)

DigitChar(n) ==
    CASE n = 0 -> "0" [] n = 1 -> "1" [] n = 2 -> "2" [] n = 3 -> "3"
      [] n = 4 -> "4" [] n = 5 -> "5" [] n = 6 -> "6" [] n = 7 -> "7"
      [] n = 8 -> "8" [] n = 9 -> "9"

\* str(n) of a non-negative int: no leading zero.
RECURSIVE IntToDigits(_)
IntToDigits(n) ==
    IF n < 10 THEN <<DigitChar(n)>>
    ELSE IntToDigits(n \div 10) \o <<DigitChar(n % 10)>>

\* The body of a JSON string: the quote and the backslash are escaped, every
\* other character is written as it is (ensure_ascii=False).
RECURSIVE Escape(_)
Escape(s) ==
    IF Len(s) = 0 THEN <<>>
    ELSE IF Head(s) \in {QUOTE, BSLASH}
         THEN <<BSLASH, Head(s)>> \o Escape(Tail(s))
         ELSE <<Head(s)>> \o Escape(Tail(s))

RECURSIVE Unescape(_)
Unescape(s) ==
    IF Len(s) = 0 THEN <<>>
    ELSE IF Head(s) = BSLASH /\ Len(s) > 1
         THEN <<s[2]>> \o Unescape(SubSeq(s, 3, Len(s)))
         ELSE <<Head(s)>> \o Unescape(Tail(s))

NumTok(text) == [t |-> "num", text |-> text]
StrTok(text) == [t |-> "str", text |-> text]

\* json.dump of one value.
DumpValue(v) ==
    IF v.t = "int" THEN NumTok(IntToDigits(v.n)) ELSE StrTok(Escape(v.s))

\* json.load of one value.
LoadValue(tok) ==
    IF tok.t = "num" THEN IntVal(DecimalValue(tok.text))
    ELSE StrVal(Unescape(tok.text))

\* The config file: missing, or what its bytes are.
\*   syntax:  not valid JSON (json.JSONDecodeError)
\*   badutf8: bytes that are not UTF-8 (UnicodeDecodeError)
\*   null, number: the JSON values null and a number
\*   string, list: a JSON string or list; names are the field names that
\*                 `name in value` finds in it
\*   object:  a JSON object; obj maps each key to the JSON text of its value
FileOf(kind, obj, names) == [kind |-> kind, obj |-> obj, names |-> names]
NoObj == [k \in {} |-> StrTok(<<>>)]
MissingFile == FileOf("missing", NoObj, {})
ObjectFile(obj) == FileOf("object", obj, {})

\* self.as_dict: a dict, or whatever else json.load returned.
DictOf(kind, map, names) == [kind |-> kind, map |-> map, names |-> names]
EmptyDict == DictOf("dict", EmptyMap, {})

\* json.load(f) where it returns.
json_load(f) ==
    CASE f.kind = "object" ->
            DictOf("dict", [k \in DOMAIN f.obj |-> LoadValue(f.obj[k])], {})
      [] f.kind = "null" -> DictOf("NoneType", EmptyMap, {})
      [] f.kind = "number" -> DictOf("int", EmptyMap, {})
      [] f.kind = "string" -> DictOf("str", EmptyMap, f.names)
      [] f.kind = "list" -> DictOf("list", EmptyMap, f.names)

\* json.dump(d, f) on the file opened with "w": the file holds d alone.
json_dump(map) == ObjectFile([k \in DOMAIN map |-> DumpValue(map[k])])

----------------------------------------------------------------------------
(* The validators and the conversions of the four prompts. *)

\* The callable given to Validator.from_callable, applied to the entered text.
Validator(f, t) ==
    CASE f = "api_id" -> isdigit(t)
      [] f = "api_hash" -> Len(strip(t)) > 0
      [] f = "bot_token" -> Len(strip(t)) > 0
      [] f = "phone_number" -> PhonePattern(strip(t))

\* The return expression of _get_<f> raises (int() of api_id only).
ConvertRaises(f, t) == f = "api_id" /\ ~IntParses(strip(t))

\* The value _get_<f> returns for the accepted text.
Convert(f, t) ==
    IF f = "api_id" THEN IntVal(int(strip(t))) ELSE StrVal(strip(t))

----------------------------------------------------------------------------
(* The steps of Config.__init__. *)

Index(f) == CHOOSE i \in 1..Len(FieldOrder) : FieldOrder[i] = f

\* What follows the `if request_<f>:` statement of field f: the next field's
\* statement, or the save step after the last one.
AfterField(f) ==
    IF Index(f) < Len(FieldOrder)
    THEN [pc |-> "get", field |-> FieldOrder[Index(f) + 1]]
    ELSE [pc |-> "save", field |-> f]

NoPrev ==
    [ran |-> FALSE, flags |-> {}, force_update |-> FALSE, attrs |-> EmptyMap,
     outcome |-> "none", wrote |-> FALSE]

\* `"<f>" in self.as_dict` raises TypeError: None and an int are no containers.
ContainsRaises(d) == d.kind \in {"NoneType", "int"}

\* `"<f>" in self.as_dict`: a key of a dict, a substring of a str, an
\* element of a list.
Contains(d, f) == IF d.kind = "dict" THEN f \in DOMAIN d.map ELSE f \in d.names

\* A variant that trusts a stored api_id only when it is a number.
UseStoredValidated(d, f, force) ==
    /\ Contains(d, f)
    /\ ~force
    /\ (d.kind = "dict" /\ f = "api_id") => d.map[f].t = "int"

\* The condition of the first statement of _get_<f>.
UseStored(d, f, force) == Contains(d, f) /\ ~force

\* `self.as_dict["<f>"]` raises TypeError: a str or a list indexed by a str.
SubscriptRaises(d) == d.kind # "dict"

\* Config(config_file, request_*=..., force_update=...) is called: lines
\* 126-130. requested is the set of fields whose flag is True.
Construct(requested, force, maxRuns) ==
    /\ pc \in {"idle", "done"}
    /\ run < maxRuns
    /\ flags' = requested
    /\ force_update' = force
    /\ as_dict' = EmptyDict
    /\ attrs' = EmptyMap
    /\ pc' = "load"
    /\ field' = FieldOrder[1]
    /\ outcome' = "none"
    /\ error' = "none"
    /\ exit_status' = -1
    /\ notice' = FALSE
    /\ entered' = <<>>
    /\ prompted' = {}
    /\ reused' = {}
    /\ wrote' = FALSE
    /\ file0' = file
    /\ run' = run + 1
    /\ prev' = IF run = 0 THEN NoPrev
               ELSE [ran |-> TRUE, flags |-> flags, force_update |-> force_update,
                     attrs |-> attrs, outcome |-> outcome, wrote |-> wrote]
    /\ ours' = (ours \/ wrote)
    /\ UNCHANGED file

\* A statement raises an exception nothing in __init__ catches.
Raise(name) ==
    /\ pc' = "done"
    /\ outcome' = "raised"
    /\ error' = name

\* A variant without the `except json.JSONDecodeError` clause.
LoadResultUncaught(f) ==
    CASE f.kind = "missing" -> "empty"
      [] f.kind = "syntax" -> "JSONDecodeError"
      [] f.kind = "badutf8" -> "UnicodeDecodeError"
      [] OTHER -> "loaded"

\* How lines 133-138 end for a file: the record stays empty (no file, or
\* json.JSONDecodeError caught), json.load returns, or an exception that is
\* no JSONDecodeError leaves the try statement.
LoadResult(f) ==
    CASE f.kind = "missing" -> "empty"
      [] f.kind = "syntax" -> "empty"
      [] f.kind = "badutf8" -> "UnicodeDecodeError"
      [] OTHER -> "loaded"

\* Lines 133-138: load the existing config.
Load ==
    /\ pc = "load"
    /\ IF LoadResult(file) = "empty"
       THEN /\ as_dict' = EmptyDict
            /\ pc' = "get"
            /\ UNCHANGED <<outcome, error>>
       ELSE IF LoadResult(file) = "loaded"
       THEN /\ as_dict' = json_load(file)
            /\ pc' = "get"
            /\ UNCHANGED <<outcome, error>>
       ELSE /\ Raise(LoadResult(file))
            /\ UNCHANGED as_dict
    /\ UNCHANGED <<file, flags, force_update, attrs, field, exit_status, notice,
                   entered, prompted, reused, wrote, file0, run, prev, ours>>

\* `if request_<f>:` with the flag not set: the field is passed over.
Skip ==
    /\ pc = "get"
    /\ field \notin flags
    /\ pc' = AfterField(field).pc
    /\ field' = AfterField(field).field
    /\ UNCHANGED <<file, flags, force_update, as_dict, attrs, outcome, error,
                   exit_status, notice, entered, prompted, reused, wrote, file0,
                   run, prev, ours>>

\* _get_<f>, its first two lines, where they raise TypeError: the presence
\* test on a record that is no container, or the subscript of a record that
\* is no dict.
LookupRaises ==
    /\ pc = "get"
    /\ field \in flags
    /\ \/ ContainsRaises(as_dict)
       \/ UseStored(as_dict, field, force_update) /\ SubscriptRaises(as_dict)
    /\ Raise("TypeError")
    /\ UNCHANGED <<file, flags, force_update, as_dict, attrs, field, exit_status,
                   notice, entered, prompted, reused, wrote, file0, run, prev,
                   ours>>

\* _get_<f>, its first two lines: the stored value is returned and assigned
\* to self.<f>.
Reuse ==
    /\ pc = "get"
    /\ field \in flags
    /\ ~ContainsRaises(as_dict)
    /\ UseStored(as_dict, field, force_update)
    /\ ~SubscriptRaises(as_dict)
    /\ attrs' = [k \in DOMAIN attrs \cup {field} |->
                    IF k = field THEN as_dict.map[field] ELSE attrs[k]]
    /\ reused' = reused \cup {field}
    /\ pc' = AfterField(field).pc
    /\ field' = AfterField(field).field
    /\ UNCHANGED <<file, flags, force_update, as_dict, outcome, error,
                   exit_status, notice, entered, prompted, wrote, file0, run,
                   prev, ours>>

\* A variant in which force_update asks for every field, requested or not.
PromptIgnoresFlags ==
    /\ pc = "get"
    /\ field \in flags \/ force_update
    /\ ~ContainsRaises(as_dict)
    /\ ~UseStored(as_dict, field, force_update)
    /\ pc' = "prompt"
    /\ prompted' = prompted \cup {field}
    /\ entered' = <<>>
    /\ UNCHANGED <<file, flags, force_update, as_dict, attrs, field, outcome,
                   error, exit_status, notice, reused, wrote, file0, run, prev,
                   ours>>

\* _get_<f>: self.session.prompt(...) is called and waits for a line.
Prompt ==
    /\ pc = "get"
    /\ field \in flags
    /\ ~ContainsRaises(as_dict)
    /\ ~UseStored(as_dict, field, force_update)
    /\ pc' = "prompt"
    /\ prompted' = prompted \cup {field}
    /\ entered' = <<>>
    /\ UNCHANGED <<file, flags, force_update, as_dict, attrs, field, outcome,
                   error, exit_status, notice, reused, wrote, file0, run, prev,
                   ours>>

\* A variant that returns whatever line is entered.
PromptAcceptsAny(f, line) == TRUE

\* What the prompt does with an entered line: it returns the line when the
\* validator accepts it and keeps asking for the same field otherwise.
PromptAccepts(f, line) == Validator(f, line)

\* A variant with no second attempt: a rejected line ends the run with an
\* error.
EnterOnce(line) ==
    /\ pc = "prompt"
    /\ ~PromptAccepts(field, line)
    /\ entered' = Append(entered, line)
    /\ Raise("ValueError")
    /\ UNCHANGED <<file, flags, force_update, as_dict, attrs, field, exit_status,
                   notice, prompted, reused, wrote, file0, run, prev, ours>>

\* The user enters a line at the prompt of the current field.
Enter(line) ==
    /\ pc = "prompt"
    /\ PromptAccepts(field, line) \/ Len(entered) < MaxRejects
    /\ entered' = Append(entered, line)
    /\ IF ~PromptAccepts(field, line)
       THEN UNCHANGED <<attrs, pc, field, outcome, error>>
       ELSE IF ConvertRaises(field, line)
       THEN /\ Raise("ValueError")
            /\ UNCHANGED <<attrs, field>>
       ELSE /\ attrs' = [k \in DOMAIN attrs \cup {field} |->
                            IF k = field THEN Convert(field, line) ELSE attrs[k]]
            /\ pc' = AfterField(field).pc
            /\ field' = AfterField(field).field
            /\ UNCHANGED <<outcome, error>>
    /\ UNCHANGED <<file, flags, force_update, as_dict, exit_status, notice,
                   prompted, reused, wrote, file0, run, prev, ours>>

\* A variant in which the config file was opened for writing before the
\* prompts: the interrupt leaves it empty.
InterruptTruncates ==
    /\ pc = "prompt"
    /\ notice' = TRUE
    /\ exit_status' = 0
    /\ outcome' = "exit"
    /\ pc' = "done"
    /\ file' = FileOf("syntax", NoObj, {})
    /\ UNCHANGED <<flags, force_update, as_dict, attrs, field, error, entered,
                   prompted, reused, wrote, file0, run, prev, ours>>

\* The user presses CTRL+C at a prompt: lines 159-161.
Interrupt ==
    /\ pc = "prompt"
    /\ notice' = TRUE
    /\ exit_status' = 0
    /\ outcome' = "exit"
    /\ pc' = "done"
    /\ UNCHANGED <<file, flags, force_update, as_dict, attrs, field, error, entered,
                   prompted, reused, wrote, file0, run, prev, ours>>

\* The user enters one more line the validator rejects after MaxRejects of
\* them: the prompt goes on as before (the log keeps the latest lines).
EnterAgain(line) ==
    /\ pc = "prompt"
    /\ ~PromptAccepts(field, line)
    /\ Len(entered) = MaxRejects
    /\ entered' = Append(Tail(entered), line)
    /\ UNCHANGED <<file, flags, force_update, as_dict, attrs, pc, field, outcome,
                   error, exit_status, notice, prompted, reused, wrote, file0,
                   run, prev, ours>>

\* The user presses CTRL+D at a prompt: session.prompt raises EOFError,
\* which the `except KeyboardInterrupt` clause does not catch.
EndOfInput ==
    /\ pc = "prompt"
    /\ Raise("EOFError")
    /\ UNCHANGED <<file, flags, force_update, as_dict, attrs, field, exit_status,
                   notice, entered, prompted, reused, wrote, file0, run, prev,
                   ours>>

\* The attributes the dict display of lines 164-168 reads, in order.
SaveReads == <<"api_id", "api_hash", "bot_token">>

\* A variant that saves every attribute that was resolved.
SaveRecordAll(a) == [k \in DOMAIN a |-> a[k]]

\* The record of lines 164-168, where every attribute it reads is set.
SaveRecord(a) == [k \in {SaveReads[i] : i \in 1..Len(SaveReads)} |-> a[k]]

\* Lines 163-170: save the config. Reading an attribute that was never
\* assigned raises AttributeError before the file is opened.
Save ==
    /\ pc = "save"
    /\ IF \E i \in 1..Len(SaveReads) : SaveReads[i] \notin DOMAIN attrs
       THEN /\ Raise("AttributeError")
            /\ UNCHANGED <<as_dict, file, wrote>>
       ELSE /\ as_dict' = DictOf("dict", SaveRecord(attrs), {})
            /\ file' = json_dump(SaveRecord(attrs))
            /\ wrote' = TRUE
            /\ pc' = "done"
            /\ outcome' = "returned"
            /\ UNCHANGED error
    /\ UNCHANGED <<flags, force_update, attrs, field, exit_status, notice,
                   entered, prompted, reused, file0, run, prev, ours>>

----------------------------------------------------------------------------
(* The inputs: the prior config files and the lines a user enters. *)

\* Keys a prior config file may hold: the four fields and an unknown key.
PriorKeys == Fields \cup {"other"}

\* The JSON text a prior config file may hold under a key. A stored api_id
\* may be malformed: a string that is not numeric.
PriorTokens(k) ==
    CASE k = "api_id" -> {NumTok(<<"1", "2", "3", "4", "5">>),
                          StrTok(<<"a", "b", "c">>)}
      [] k = "api_hash" -> {StrTok(<<"h", "0">>)}
      [] k = "bot_token" -> {StrTok(<<"7", ":", "t", "0">>)}
      [] k = "phone_number" -> {StrTok(<<"+", "1", "5", "5", "5", "1", "2", "3">>)}
      [] k = "other" -> {StrTok(<<"x">>)}

\* Every JSON object over the prior keys.
PriorObjects ==
    UNION {{o \in [K -> UNION {PriorTokens(k) : k \in K}] :
                \A k \in K : o[k] \in PriorTokens(k)} : K \in SUBSET PriorKeys}

\* The prior states of the config file.
PriorFiles ==
    {MissingFile,
     FileOf("syntax", NoObj, {}),
     FileOf("badutf8", NoObj, {}),
     FileOf("null", NoObj, {}),
     FileOf("number", NoObj, {}),
     FileOf("string", NoObj, {}),
     FileOf("string", NoObj, {"api_hash"}),
     FileOf("list", NoObj, {}),
     FileOf("list", NoObj, {"bot_token"})}
    \cup {ObjectFile(o) : o \in PriorObjects}

\* The lines a user enters at the prompt of a field.
Lines(f) ==
    CASE f = "api_id" ->
            {<<>>,
             <<"a", "b", "c">>,
             <<" ", "9", "8", "7", "6", "5", " ">>,
             <<"9", "8", "7", "6", "5">>,
             <<"0", "0", "7">>,
             <<"0">>,
             <<SUP2>>}
      [] f = "api_hash" ->
            {<<>>,
             <<" ", " ">>,
             <<" ", "h", "1", " ">>,
             <<"a", QUOTE, BSLASH, "b">>}
      [] f = "bot_token" ->
            {<<>>,
             <<" ">>,
             <<" ", " ", "1", "2", "3", "a", "b", "c", " ">>,
             <<"7", ":", "t", "0">>}
      [] f = "phone_number" ->
            {<<"1", "2", "3">>,
             <<"0", "5", "5", "5", "1", "2", "3", "4">>,
             <<"1", "5", "5", "5", "1", "2", "3", "4", "5", "6", "7">>,
             <<" ", "+", "1", "5", "5", "5", "1", "2", "3", " ">>}

\* The prior files and the lines of the runs of SpecRuns.
PriorFilesRuns ==
    {MissingFile,
     FileOf("list", NoObj, {"bot_token"}),
     ObjectFile([k \in {"api_id"} |-> StrTok(<<"a", "b", "c">>)])}
    \cup {ObjectFile(o) : o \in {p \in PriorObjects : DOMAIN p = PriorKeys}}

LinesRuns(f) ==
    CASE f = "api_id" -> {<<"a", "b", "c">>, <<"0", "0", "7">>}
      [] f = "api_hash" -> {<<>>, <<"a", QUOTE, BSLASH, "b">>}
      [] f = "bot_token" -> {<<" ">>, <<" ", "7", ":", "t", "1", " ">>}
      [] f = "phone_number" ->
            {<<"1", "2", "3">>,
             <<" ", "+", "1", "5", "5", "5", "1", "2", "3", " ">>}

----------------------------------------------------------------------------
(* The specifications. *)

InitWith(files) ==
    /\ file \in files
    /\ flags = {}
    /\ force_update = FALSE
    /\ as_dict = EmptyDict
    /\ attrs = EmptyMap
    /\ pc = "idle"
    /\ field = FieldOrder[1]
    /\ outcome = "none"
    /\ error = "none"
    /\ exit_status = -1
    /\ notice = FALSE
    /\ entered = <<>>
    /\ prompted = {}
    /\ reused = {}
    /\ wrote = FALSE
    /\ file0 = file
    /\ run = 0
    /\ prev = NoPrev
    /\ ours = FALSE

\* One run of Config(...) on any prior file.
Init == InitWith(PriorFiles)

Next ==
    \/ \E requested \in SUBSET Fields, force \in BOOLEAN :
          Construct(requested, force, 1)
    \/ Load
    \/ Skip
    \/ LookupRaises
    \/ Reuse
    \/ Prompt
    \/ \E line \in Lines(field) : Enter(line)
    \/ Interrupt
    \/ EndOfInput
    \/ Save

Spec == Init /\ [][Next]_vars

\* MaxRuns consecutive runs of Config(...) on the same config file.
InitRuns == InitWith(PriorFilesRuns)

NextRuns ==
    \/ \E requested \in SUBSET Fields, force \in BOOLEAN :
          Construct(requested, force, MaxRuns)
    \/ Load
    \/ Skip
    \/ LookupRaises
    \/ Reuse
    \/ Prompt
    \/ \E line \in LinesRuns(field) : Enter(line)
    \/ Interrupt
    \/ EndOfInput
    \/ Save

SpecRuns == InitRuns /\ [][NextRuns]_vars

\* The statements __init__ executes by itself, one after the other.
Program == Load \/ Skip \/ LookupRaises \/ Reuse \/ Prompt \/ Save

\* The lines of the runs of SpecLive: for every field an empty line and a
\* blank one besides the lines of SpecRuns.
LinesLive(f) == LinesRuns(f) \cup {<<>>, <<" ", " ">>}

\* The user ends a prompt: a line the validator accepts, or CTRL+C.
UserEnds ==
    \/ \E line \in LinesLive(field) : PromptAccepts(field, line) /\ Enter(line)
    \/ Interrupt

\* One run with no bound on the rejected lines: the interpreter goes on to
\* the next statement, and at every prompt the user eventually enters a valid
\* line or interrupts.
NextLive ==
    \/ \E requested \in SUBSET Fields, force \in BOOLEAN :
          Construct(requested, force, 1)
    \/ Program
    \/ \E line \in LinesLive(field) : Enter(line)
    \/ \E line \in LinesLive(field) : EnterAgain(line)
    \/ Interrupt
    \/ EndOfInput

SpecLive ==
    InitRuns /\ [][NextLive]_vars /\ WF_vars(Program) /\ WF_vars(UserEnds)

----------------------------------------------------------------------------
(* The claims. *)

\* The run is past the `if request_<f>:` statement of field f.
Passed(f) ==
    \/ pc \in {"get", "prompt"} /\ Index(field) > Index(f)
    \/ pc = "save"
    \/ pc = "done" /\ Index(field) > Index(f)
    \/ pc = "done" /\ (wrote \/ error = "AttributeError")

\* The record the run loaded, where the file it started from is an object.
Stored(f) == LoadValue(file0.obj[f])

\* C1: for every combination of flags and every prior file, a run in which
\* the user is not interrupted completes normally: once the requested fields
\* have their values, construction returns without raising, every requested
\* field is an attribute, the config file is written, and the resulting
\* record omits every field whose flag is not set.
C1_CompletesNormally ==
    ( /\ pc = "done"
      /\ outcome # "exit"
      /\ flags # {}
      /\ \A f \in flags : f \in DOMAIN attrs ) =>
        /\ outcome = "returned"
        /\ error = "none"
        /\ wrote
        /\ file.kind = "object"
        /\ \A f \in flags : f \in DOMAIN attrs
        /\ \A f \in Fields \ flags :
              f \notin DOMAIN as_dict.map /\ f \notin DOMAIN file.obj

\* C2: with force_update false, a requested field that is a key of the loaded
\* record is never prompted for, and the value resolved for it is the stored
\* value unchanged, well-formed or not.
C2_StoredValueReused ==
    \A f \in Fields :
        ( /\ pc \notin {"idle", "load"}
          /\ ~force_update
          /\ f \in flags
          /\ file0.kind = "object"
          /\ f \in DOMAIN file0.obj ) =>
            /\ f \notin prompted
            /\ f \in DOMAIN attrs => attrs[f] = Stored(f)

\* C2 witness: a run without force_update returned with every field reused,
\* among them a stored api_id that is not numeric.
C2_Witness ==
    /\ outcome = "returned"
    /\ ~force_update
    /\ flags = Fields
    /\ reused = Fields
    /\ prompted = {}
    /\ attrs["api_id"] = StrVal(<<"a", "b", "c">>)

\* C3: with force_update true, the resolution of a requested field issues a
\* prompt for it whether or not the loaded record holds the field, and the
\* field is never resolved from the stored value. (A field the run never got
\* to, being cancelled or ended before, is not covered.)
C3_ForcePrompts ==
    \A f \in Fields :
        ( /\ force_update
          /\ f \in flags
          /\ \/ Passed(f)
             \/ field = f /\ pc = "prompt"
             \/ field = f /\ pc = "done" /\ error # "UnicodeDecodeError" ) =>
            /\ f \in prompted
            /\ f \notin reused

\* C4: a line the validator of the prompted field rejects is not accepted:
\* the same field stays prompted and neither the attributes nor the file
\* change; every line entered before the accepted one was rejected, and the
\* value of the field is the conversion of the first line the validator
\* accepts.
C4_FirstValidLine ==
    [][ (pc = "prompt" /\ entered' # entered) =>
            LET line == entered'[Len(entered')]
            IN  /\ \A i \in 1..Len(entered) : ~Validator(field, entered[i])
                /\ entered' = Append(entered, line)
                /\ prompted' = prompted
                /\ file' = file
                /\ wrote' = wrote
                /\ IF ~Validator(field, line)
                   THEN /\ pc' = "prompt"
                        /\ field' = field
                        /\ attrs' = attrs
                        /\ outcome' = "none"
                   ELSE \/ /\ pc' = "done"
                           /\ error' = "ValueError"
                           /\ attrs' = attrs
                        \/ /\ pc' # "prompt"
                           /\ field \in DOMAIN attrs'
                           /\ attrs'[field] = Convert(field, line)
                           /\ \A k \in DOMAIN attrs : attrs'[k] = attrs[k] ]_vars

\* C4 witness: api_id was resolved to 7 from "007", entered after two lines
\* the validator rejected.
C4_Witness ==
    /\ pc = "get"
    /\ field = "api_hash"
    /\ Len(entered) = 3
    /\ ~Validator("api_id", entered[1])
    /\ ~Validator("api_id", entered[2])
    /\ entered[3] = <<"0", "0", "7">>
    /\ "api_id" \in prompted
    /\ attrs["api_id"] = IntVal(7)

\* C5: after a first run has resolved its requested fields, a second run on
\* the same file with the same flags and force_update false prompts for none
\* of api_id, api_hash, bot_token, resolves each requested one of them to the
\* value the first run resolved, and leaves the file as the first run left it.
C5_RoundTrip ==
    ( /\ prev.ran
      /\ pc \notin {"idle", "load"}
      /\ flags = prev.flags
      /\ ~force_update
      /\ \A f \in prev.flags : f \in DOMAIN prev.attrs ) =>
        /\ \A f \in flags \cap SavedKeys :
              /\ f \notin prompted
              /\ f \in DOMAIN attrs => attrs[f] = prev.attrs[f]
        /\ file = file0

\* C6: an interrupt at a prompt prints the cancellation notice and ends the
\* process with exit status 0; no exception reaches the caller and the config
\* file is as it was when the run started.
C6_CancelLeavesFile ==
    (notice \/ outcome = "exit") =>
        /\ notice
        /\ outcome = "exit"
        /\ pc = "done"
        /\ exit_status = 0
        /\ error = "none"
        /\ ~wrote
        /\ file = file0

\* C6 witness: the run was cancelled at the bot_token prompt after api_id and
\* api_hash were resolved, on a config file that existed.
C6_Witness ==
    /\ outcome = "exit"
    /\ field = "bot_token"
    /\ {"api_id", "api_hash"} \subseteq DOMAIN attrs
    /\ "api_id" \in prompted
    /\ file0.kind = "object"
    /\ DOMAIN file0.obj # {}

\* C7: when the config file does not exist or is not valid JSON, the load
\* step raises nothing and leaves the record empty; no requested field is
\* reused, and every requested field the run resolves or gets past is
\* prompted for.
C7_LoadFailureIsEmpty ==
    (file0.kind \in {"missing", "syntax"} /\ pc \notin {"idle", "load"}) =>
        /\ error \notin {"JSONDecodeError", "UnicodeDecodeError", "TypeError"}
        /\ ~wrote => as_dict = EmptyDict
        /\ reused = {}
        /\ \A f \in flags :
              (Passed(f) \/ f \in DOMAIN attrs \/ (field = f /\ pc # "get"))
                  => f \in prompted

\* C7 witness: a run on a file that is not valid JSON returned after prompting
\* for all four fields.
C7_Witness ==
    /\ file0.kind = "syntax"
    /\ outcome = "returned"
    /\ flags = Fields
    /\ prompted = Fields
    /\ ~force_update

\* C8: every run ends either with all requested fields resolved and the file
\* written, or cancelled by an interrupt with the file not written; never
\* with an error raised to the caller or with the file left unwritten.
C8_TwoOutcomes ==
    pc = "done" =>
        \/ /\ outcome = "returned"
           /\ error = "none"
           /\ wrote
           /\ \A f \in flags : f \in DOMAIN attrs
        \/ /\ outcome = "exit"
           /\ ~wrote
           /\ file = file0

\* C9: when a run writes the config file, the keys of the written file are
\* exactly the fields resolved in that run, phone_number included.
C9_FileHoldsResolved ==
    wrote => (file.kind = "object" /\ DOMAIN file.obj = DOMAIN attrs)

\* C10: a file this program wrote is an object with no key outside api_id,
\* api_hash, bot_token, whatever the prior file held; phone_number is never
\* persisted, so a run that starts from a file an earlier run wrote never
\* reuses phone_number and resolves it only through a prompt.
C10_PhoneNotPersisted ==
    /\ wrote => (file.kind = "object" /\ DOMAIN file.obj \subseteq SavedKeys)
    /\ ours =>
          /\ file0.kind = "object"
          /\ DOMAIN file0.obj \subseteq SavedKeys
          /\ "phone_number" \notin reused
          /\ ("phone_number" \in flags /\ Passed("phone_number"))
                => "phone_number" \in prompted

\* C10 witness: the first run resolved phone_number and wrote the file; the
\* second run, without force_update, prompted for phone_number again.
C10_Witness ==
    /\ run = 2
    /\ ours
    /\ prev.wrote
    /\ "phone_number" \in DOMAIN prev.attrs
    /\ ~force_update
    /\ outcome = "returned"
    /\ "phone_number" \in prompted
    /\ reused = SavedKeys

\* The text without surrounding whitespace is non-empty and holds decimal
\* digits only.
TrimmedDecimal(t) ==
    LET s == strip(t)
    IN  Len(s) > 0 /\ \A i \in 1..Len(s) : s[i] \in DecimalChars

\* C11: the api_id prompt accepts a line if and only if the line without its
\* surrounding whitespace is non-empty and all decimal digits, and resolves
\* api_id to the integer value of that trimmed text: no such line is among
\* the rejected ones, no other line is accepted, and the accepted line gives
\* the value.
C11_ApiIdTrimmedValidation ==
    /\ (pc = "prompt" /\ field = "api_id") =>
          \A i \in 1..Len(entered) : ~TrimmedDecimal(entered[i])
    /\ error # "ValueError"
    /\ (pc = "get" /\ field = "api_hash" /\ "api_id" \in prompted) =>
          /\ \A i \in 1..(Len(entered) - 1) : ~TrimmedDecimal(entered[i])
          /\ TrimmedDecimal(entered[Len(entered)])
          /\ attrs["api_id"] = IntVal(DecimalValue(strip(entered[Len(entered)])))

\* The data-model constraint of a field on a value.
Wellformed(f, v) ==
    CASE f = "api_id" -> v.t = "int" /\ v.n > 0
      [] f \in {"api_hash", "bot_token"} ->
            /\ v.t = "str"
            /\ Len(v.s) > 0
            /\ v.s[1] # " "
            /\ v.s[Len(v.s)] # " "
      [] f = "phone_number" ->
            /\ v.t = "str"
            /\ LET d == IF Len(v.s) > 0 /\ v.s[1] = "+"
                        THEN SubSeq(v.s, 2, Len(v.s)) ELSE v.s
               IN  /\ Len(d) \in 7..15
                   /\ d[1] \in {"1", "2", "3", "4", "5", "6", "7", "8", "9"}
                   /\ \A i \in 1..Len(d) : d[i] \in DecimalChars

\* C12: every value resolved from a prompt satisfies the data-model
\* constraint of its field: api_id is an integer greater than 0, api_hash and
\* bot_token are non-empty strings without surrounding whitespace,
\* phone_number is 7 to 15 digits, the first not 0, optionally after a "+".
C12_PromptedValuesWellformed ==
    \A f \in prompted : f \in DOMAIN attrs => Wellformed(f, attrs[f])

\* The place of a field in the order api_id, api_hash, bot_token,
\* phone_number.
Rank(f) ==
    CASE f = "api_id" -> 1
      [] f = "api_hash" -> 2
      [] f = "bot_token" -> 3
      [] f = "phone_number" -> 4

\* C13: within one run the file is read once, before any prompt; a prompt is
\* issued only for a field that comes after every field prompted so far, and
\* lines are entered only for the latest of them, so the prompts of one field
\* are contiguous; the file is written at most once, by the save step, when
\* every requested field is resolved, and nothing follows the write.
C13_EventOrder ==
    [][ /\ (pc = "load" /\ pc' # "load") =>
              (prompted = {} /\ entered = <<>> /\ DOMAIN attrs = {})
        /\ (pc # "load" /\ pc' = "load") => run' = run + 1
        /\ (run' = run /\ as_dict' # as_dict) => pc \in {"load", "save"}
        /\ (run' = run /\ prompted' # prompted) =>
              /\ pc = "get"
              /\ prompted' = prompted \cup {field'}
              /\ field' \notin prompted
              /\ \A g \in prompted : Rank(g) < Rank(field')
        /\ (run' = run /\ entered' # entered) =>
              /\ field \in prompted'
              /\ \A g \in prompted' : Rank(g) <= Rank(field)
        /\ (run' = run /\ (file' # file \/ wrote' # wrote)) =>
              /\ pc = "save"
              /\ pc' = "done"
              /\ ~wrote
              /\ wrote'
              /\ \A f \in flags : f \in DOMAIN attrs
        /\ (run' = run /\ wrote) => (pc' = "done" /\ file' = file) ]_vars

\* C13 witness: a run prompted for all four fields, the last one answered on
\* the third line, and wrote the file.
C13_Witness ==
    /\ outcome = "returned"
    /\ wrote
    /\ prompted = Fields
    /\ Len(entered) = 3

\* The loaded record does not hold field f.
Absent(f) == file0.kind # "object" \/ f \notin DOMAIN file0.obj

\* C14: a field whose flag is not set is neither prompted for nor resolved,
\* whatever the prior file holds and whatever force_update is; a prompt is
\* issued for a field only if its flag is set and the field is absent from the
\* loaded record or force_update is true.
C14_OnlyRequestedFields ==
    /\ prompted \subseteq flags
    /\ reused \subseteq flags
    /\ DOMAIN attrs \subseteq flags
    /\ \A f \in prompted : force_update \/ Absent(f)

\* C14 witness: with force_update true and phone_number stored in the file
\* but not requested, the run prompted for the three requested fields and
\* returned without prompting for or resolving phone_number.
C14_Witness ==
    /\ outcome = "returned"
    /\ force_update
    /\ file0.kind = "object"
    /\ DOMAIN file0.obj = PriorKeys
    /\ flags = SavedKeys
    /\ prompted = SavedKeys
    /\ "phone_number" \notin DOMAIN attrs

\* C15: a line the validator rejects, however many came before it, leaves
\* the run at the same prompt: it does not end, does not go on to another
\* field and does not write the file; and when at every prompt the user
\* eventually enters a valid line or interrupts, every run that was started
\* ends.
C15_PromptsUntilValid ==
    /\ [][ ( /\ pc = "prompt"
             /\ entered' # entered
             /\ ~Validator(field, entered'[Len(entered')]) ) =>
                /\ pc' = "prompt"
                /\ field' = field
                /\ outcome' = "none"
                /\ attrs' = attrs
                /\ wrote' = wrote
                /\ file' = file ]_vars
    /\ (pc = "load") ~> (pc = "done")

\* C15 witness: after MaxRejects rejected lines and one more, the bot_token
\* prompt is still waiting and nothing was written.
C15_Witness ==
    /\ pc = "prompt"
    /\ field = "bot_token"
    /\ Len(entered) = MaxRejects
    /\ \A i \in 1..Len(entered) : ~Validator("bot_token", entered[i])
    /\ entered[1] # entered[Len(entered)]
    /\ ~wrote
    /\ outcome = "none"

\* C16: after the load step the record is a key-value mapping for every
\* file content, and an empty one for every file that is not a JSON object
\* (null, a number, a string, a list, bytes that are not UTF-8); neither the
\* load step nor a presence check of the field resolution raises.
C16_RecordIsMapping ==
    (pc \notin {"idle", "load"}) =>
        /\ as_dict.kind = "dict"
        /\ (file0.kind # "object" /\ ~wrote) => as_dict = EmptyDict
        /\ error \notin {"UnicodeDecodeError", "JSONDecodeError", "TypeError"}

====
